---- MODULE Spec2Model ----
(***************************************************************************)
(* Model of the Discord watcher (internal/discord/watcher.py): the         *)
(* on_message handler with its deduplication set, the state file written   *)
(* by _save_state and read by _load_state, the notification subprocess,    *)
(* and the start / signal / shutdown / exit path of run() and main().      *)
(*                                                                         *)
(* on_message handlers are coroutines: discord.py schedules one task per   *)
(* delivered event, and a task gives up control only at an await.  The     *)
(* awaits of a handler are the two in _send_notification (subprocess       *)
(* creation, proc.communicate()); everything between awaits is one atomic  *)
(* step of the event loop.                                                 *)
(***************************************************************************)
EXTENDS Naturals, Integers, Sequences, FiniteSets, TLC

\* ---------------------------------------------------------------- bounds
\* Message identifiers are drawn from 1..MaxId.
MaxId == 2
\* Handler tasks that can be in flight at once.
MaxTasks == 2

\* The slice bound of _save_state, list(...)[-1000:], scaled from 1000 to 1
\* so that "more identifiers than the cap" is a reachable case.
KeepLast == 1

Ids == 1..MaxId
Tasks == 1..MaxTasks

VARIABLES
    state,               \* lifecycle position of main()/run()/shutdown()
    session,             \* the transport session held by self.bot
    processed_messages,  \* self.processed_messages
    stateFile,           \* daemon/discord_watcher_state.json
    task,                \* the on_message tasks, each with its position
    pendingShutdown,     \* a shutdown() task created by the signal handler has yet to run
    exitCode,            \* process exit status, -1 while running
    \* history, read by the properties only
    notifyCalls,         \* per id: calls of _send_notification
    recordOrder,         \* ids in the order they were first added in this lifetime
    lastSave,            \* outcome of the latest _save_state
    \* observers, kept by SpecSeq only
    lastDone,            \* id and notify result of the handler that finished latest
    last,                \* the latest delivery on_message handled
    subprocesses         \* notification subprocesses started

vars == <<state, session, processed_messages, stateFile, task, pendingShutdown,
          exitCode, notifyCalls, recordOrder, lastSave, lastDone, last,
                   subprocesses>>

\* ---------------------------------------------------------------- helpers
Range(s) == {s[i] : i \in 1..Len(s)}

Min(a, b) == IF a < b THEN a ELSE b

\* seq[-n:]
LastN(s, n) == IF Len(s) <= n THEN s ELSE SubSeq(s, Len(s) - n + 1, Len(s))

\* list(S) for a Python set S: every element once, in the set's iteration
\* order.  The language gives that order no relation to insertion order (it
\* follows the hash-table slots of the values), so every order can come out.
ListOrders(S) ==
    {l \in [1..Cardinality(S) -> S] : \A i, j \in 1..Cardinality(S) : l[i] = l[j] => i = j}

\* ---------------------------------------------------------------- state file
AbsentFile == [kind |-> "absent", ids |-> <<>>]
CorruptFile == [kind |-> "corrupt", ids |-> <<>>]
OkFile(l) == [kind |-> "ok", ids |-> l]

\* _load_state reading the list from its second entry on.
LoadStateSkipsFirst(f) ==
    IF f.kind = "ok" /\ Len(f.ids) > 0 THEN Range(Tail(f.ids)) ELSE {}

\* _load_state: the set it leaves in self.processed_messages, which __init__
\* set to the empty set just before.
LoadState(f) ==
    IF f.kind = "ok" THEN Range(f.ids) ELSE {}

\* _load_state without its except clause: a file that does not parse ends
\* the constructor with the exception.
LoadStateRaisesOnCorrupt(f) == f.kind = "corrupt"

\* Whether an exception leaves _load_state: the try / except Exception around
\* open and json.load catches every read and parse failure.
LoadStateRaises(f) == FALSE

\* _save_state without the [-1000:] slice.
RecentMessagesUnsliced(S) == ListOrders(S)

\* recent_messages = list(self.processed_messages)[-1000:]
RecentMessages(S) == {LastN(l, KeepLast) : l \in ListOrders(S)}

\* _save_state: the files it can leave and the outcome.  A failure before or
\* in open() leaves the file as it was; a failure after open(..., 'w') leaves
\* a truncated file, which no longer parses.  Either way the exception is
\* swallowed.
SaveStateOutcomes(S, f) ==
    {[file |-> OkFile(r), outcome |-> "ok"] : r \in RecentMessages(S)}
        \cup {[file |-> f, outcome |-> "failed"],
              [file |-> CorruptFile, outcome |-> "failed"]}

SaveState ==
    \E o \in SaveStateOutcomes(processed_messages', stateFile) :
        /\ stateFile' = o.file
        /\ lastSave' = o.outcome

\* ---------------------------------------------------------------- messages
Messages == [id : Ids, self : BOOLEAN, dm : BOOLEAN, mention : BOOLEAN]

NoMessage == [id |-> 0, self |-> FALSE, dm |-> FALSE, mention |-> FALSE]

\* on_message without the membership test of lines 89-92.
NotificationTypeNoDedup(message, processed) ==
    IF message.self THEN "NONE"
    ELSE IF message.dm THEN "DM"
    ELSE IF message.mention THEN "MENTION"
    ELSE "NONE"

\* on_message without the author test of lines 85-87.
NotificationTypeNoSelfTest(message, processed) ==
    IF message.id \in processed THEN "NONE"
    ELSE IF message.dm THEN "DM"
    ELSE IF message.mention THEN "MENTION"
    ELSE "NONE"

\* on_message with the mention test before the DM test.
NotificationTypeMentionFirst(message, processed) ==
    IF message.self THEN "NONE"
    ELSE IF message.id \in processed THEN "NONE"
    ELSE IF message.mention THEN "MENTION"
    ELSE IF message.dm THEN "DM"
    ELSE "NONE"

\* The decision of on_message: "NONE" when it returns without notifying,
\* otherwise the notification_type it passes to _send_notification.
NotificationType(message, processed) ==
    IF message.self THEN "NONE"
    ELSE IF message.id \in processed THEN "NONE"
    ELSE IF message.dm THEN "DM"
    ELSE IF message.mention THEN "MENTION"
    ELSE "NONE"

IdleTask == [pc |-> "idle", id |-> 0]

InFlight(t) == task[t].pc \in {"spawn", "communicate"}

\* ---------------------------------------------------------------- Init
\* The state after DiscordWatcher(token): the state file is whatever an
\* earlier run (or nothing, or damage) left, and _load_state has run.
\* Identifiers are interchangeable, so one written file of each length up to
\* the cap stands for all of them.
InitialFiles ==
    {AbsentFile, CorruptFile}
        \cup {OkFile([i \in 1..n |-> i]) : n \in 1..Min(KeepLast, MaxId)}

Init ==
    /\ stateFile \in InitialFiles
    /\ processed_messages = LoadState(stateFile)
    /\ state = IF LoadStateRaises(stateFile) THEN "Stopped" ELSE "Disconnected"
    /\ session = "none"
    /\ task = [t \in Tasks |-> IdleTask]
    /\ pendingShutdown = FALSE
    /\ exitCode = IF LoadStateRaises(stateFile) THEN 1 ELSE -1
    /\ notifyCalls = [i \in Ids |-> 0]
    /\ recordOrder = <<>>
    /\ lastSave = "none"
    /\ lastDone = [id |-> 0, result |-> "none"]
    /\ last = [message |-> NoMessage, seen |-> FALSE, type |-> "NONE"]
    /\ subprocesses = 0

\* ---------------------------------------------------------------- run()
\* main() calls asyncio.run(watcher.run()); run() installs the signal
\* handlers and awaits bot.start(token).
Start ==
    /\ state = "Disconnected"
    /\ state' = "Connecting"
    /\ session' = "connecting"
    /\ UNCHANGED <<processed_messages, stateFile, task, pendingShutdown, exitCode,
                   notifyCalls, recordOrder, lastSave, lastDone, last,
                   subprocesses>>

\* on_ready: the handshake succeeded.
Ready ==
    /\ state = "Connecting"
    /\ state' = "Connected"
    /\ session' = "open"
    /\ UNCHANGED <<processed_messages, stateFile, task, pendingShutdown, exitCode,
                   notifyCalls, recordOrder, lastSave, lastDone, last,
                   subprocesses>>

\* ---------------------------------------------------------------- on_message
\* A handler task occupies the lowest free slot; slots carry no meaning.
FreeTask(t) == task[t].pc = "idle" /\ \A u \in Tasks : u < t => task[u].pc # "idle"

\* on_message with add / _save_state outside the if should_notify block: a
\* message that passes both early returns is recorded whether worthy or not.
DeliverRecordsUnworthy(message) ==
    /\ state = "Connected"
    /\ LET type == NotificationType(message, processed_messages) IN
        IF type = "NONE"
        THEN /\ UNCHANGED <<task, notifyCalls>>
             /\ IF message.self \/ message.id \in processed_messages
                THEN UNCHANGED <<processed_messages, recordOrder, stateFile, lastSave>>
                ELSE /\ processed_messages' = processed_messages \cup {message.id}
                     /\ recordOrder' = Append(recordOrder, message.id)
                     /\ SaveState
        ELSE /\ notifyCalls' = [notifyCalls EXCEPT ![message.id] = @ + 1]
             /\ \E t \in Tasks :
                    /\ FreeTask(t)
                    /\ task' = [task EXCEPT ![t] = [pc |-> "spawn", id |-> message.id]]
             /\ UNCHANGED <<processed_messages, recordOrder, stateFile, lastSave>>
    /\ UNCHANGED <<state, session, pendingShutdown, exitCode, lastDone, subprocesses>>

\* on_message up to its first await: the two early returns, the DM / mention
\* test, and the call of _send_notification, which runs to the await of
\* asyncio.create_subprocess_exec.
Deliver(message) ==
    /\ state = "Connected"
    /\ LET type == NotificationType(message, processed_messages) IN
        IF type = "NONE"
        THEN UNCHANGED <<task, notifyCalls>>
        ELSE /\ notifyCalls' = [notifyCalls EXCEPT ![message.id] = @ + 1]
             /\ \E t \in Tasks :
                    /\ FreeTask(t)
                    /\ task' = [task EXCEPT ![t] = [pc |-> "spawn", id |-> message.id]]
    /\ UNCHANGED <<state, session, processed_messages, stateFile, pendingShutdown,
                   exitCode, recordOrder, lastSave, lastDone,
                   subprocesses>>

OnMessage(message) ==
    /\ Deliver(message)
    /\ UNCHANGED last

\* on_message recording the id only when the notification went through.
RecordOnlyOnSuccess(t, result) ==
    /\ processed_messages' = IF result = "ok" THEN processed_messages \cup {task[t].id}
                                              ELSE processed_messages
    /\ recordOrder' = IF task[t].id \in processed_messages \/ result # "ok"
                      THEN recordOrder
                      ELSE Append(recordOrder, task[t].id)
    /\ SaveState
    /\ task' = [task EXCEPT ![t] = IdleTask]

\* on_message taking the id out again when the write failed.
RecordRollsBack(t, result) ==
    /\ \E o \in SaveStateOutcomes(processed_messages \cup {task[t].id}, stateFile) :
        /\ stateFile' = o.file
        /\ lastSave' = o.outcome
        /\ processed_messages' = IF o.outcome = "ok"
                                 THEN processed_messages \cup {task[t].id}
                                 ELSE processed_messages \ {task[t].id}
    /\ recordOrder' = IF task[t].id \in processed_messages
                      THEN recordOrder
                      ELSE Append(recordOrder, task[t].id)
    /\ task' = [task EXCEPT ![t] = IdleTask]

\* on_message cutting the set in memory down to the slice it wrote.
RecordTruncatesMemory(t, result) ==
    /\ \E o \in SaveStateOutcomes(processed_messages \cup {task[t].id}, stateFile) :
        /\ stateFile' = o.file
        /\ lastSave' = o.outcome
        /\ processed_messages' = IF o.outcome = "ok"
                                 THEN Range(o.file.ids)
                                 ELSE processed_messages \cup {task[t].id}
    /\ recordOrder' = IF task[t].id \in processed_messages
                      THEN recordOrder
                      ELSE Append(recordOrder, task[t].id)
    /\ task' = [task EXCEPT ![t] = IdleTask]

\* The tail of on_message after _send_notification has returned:
\* self.processed_messages.add(message.id); self._save_state().
Record(t, result) ==
    /\ processed_messages' = processed_messages \cup {task[t].id}
    /\ recordOrder' = IF task[t].id \in processed_messages
                      THEN recordOrder
                      ELSE Append(recordOrder, task[t].id)
    /\ SaveState
    /\ task' = [task EXCEPT ![t] = IdleTask]

\* create_subprocess_exec returned a process; the handler now awaits
\* proc.communicate().
SpawnStarted(t) ==
    /\ state \in {"Connected", "ShuttingDown"}
    /\ task[t].pc = "spawn"
    /\ task' = [task EXCEPT ![t] = [@ EXCEPT !.pc = "communicate"]]
    /\ UNCHANGED <<state, session, processed_messages, stateFile, pendingShutdown,
                   exitCode, notifyCalls, recordOrder, lastSave, lastDone, last>>

SpawnOk(t) == SpawnStarted(t) /\ UNCHANGED subprocesses

\* create_subprocess_exec raised (no such command, no process slots): the
\* except clause of _send_notification logs it and the handler goes on.
SpawnFailed(t) ==
    /\ state \in {"Connected", "ShuttingDown"}
    /\ task[t].pc = "spawn"
    /\ Record(t, "raised")
    /\ UNCHANGED <<state, session, pendingShutdown, exitCode, notifyCalls, last,
                   subprocesses>>

\* _send_notification without its except clause: an exception out of
\* proc.communicate() ends the handler before add / _save_state.
CommunicatedUncaught(t, result) ==
    /\ state \in {"Connected", "ShuttingDown"}
    /\ task[t].pc = "communicate"
    /\ IF result = "raised"
       THEN /\ task' = [task EXCEPT ![t] = IdleTask]
            /\ UNCHANGED <<processed_messages, recordOrder, stateFile, lastSave>>
       ELSE Record(t, result)
    /\ UNCHANGED <<state, session, pendingShutdown, exitCode, notifyCalls, last,
                   subprocesses>>

\* _send_notification starting over after a non-zero return code or an
\* exception.
CommunicatedRetries(t, result) ==
    /\ state \in {"Connected", "ShuttingDown"}
    /\ task[t].pc = "communicate"
    /\ IF result = "ok"
       THEN Record(t, result)
       ELSE /\ task' = [task EXCEPT ![t] = [@ EXCEPT !.pc = "spawn"]]
            /\ UNCHANGED <<processed_messages, recordOrder, stateFile, lastSave>>
    /\ UNCHANGED <<state, session, pendingShutdown, exitCode, notifyCalls, last,
                   subprocesses>>

\* proc.communicate() finished: return code 0, a non-zero return code, or an
\* exception; all three are logged and the handler goes on.
Communicated(t, result) ==
    /\ state \in {"Connected", "ShuttingDown"}
    /\ task[t].pc = "communicate"
    /\ Record(t, result)
    /\ UNCHANGED <<state, session, pendingShutdown, exitCode, notifyCalls, last,
                   subprocesses>>

NotifyResults == {"ok", "nonzero", "raised"}

SpawnRaise(t) == SpawnFailed(t) /\ UNCHANGED lastDone

Communicate(t, result) == Communicated(t, result) /\ UNCHANGED lastDone

\* ---------------------------------------------------------------- shutdown
\* SIGTERM / SIGINT: the handler installed by run() creates a task running
\* shutdown().  A signal that comes while such a task is still waiting to run
\* adds a second one, whose effects are those of a signal that comes after
\* the first task ran.
Signal ==
    /\ state \in {"Connecting", "Connected", "ShuttingDown"}
    /\ ~pendingShutdown
    /\ pendingShutdown' = TRUE
    /\ UNCHANGED <<state, session, processed_messages, stateFile, task, exitCode,
                   notifyCalls, recordOrder, lastSave, lastDone, last,
                   subprocesses>>

\* shutdown() without its self._save_state() line.
ShutdownNoFlush ==
    /\ state \in {"Connecting", "Connected", "ShuttingDown"}
    /\ pendingShutdown
    /\ pendingShutdown' = FALSE
    /\ state' = "ShuttingDown"
    /\ UNCHANGED <<processed_messages, stateFile, lastSave, session, task, exitCode,
                   notifyCalls, recordOrder, lastDone, last, subprocesses>>

\* shutdown() up to its await: self._save_state(), then bot.close() is entered.
Shutdown ==
    /\ state \in {"Connecting", "Connected", "ShuttingDown"}
    /\ pendingShutdown
    /\ pendingShutdown' = FALSE
    /\ UNCHANGED processed_messages
    /\ SaveState
    /\ state' = "ShuttingDown"
    /\ UNCHANGED <<session, task, exitCode, notifyCalls, recordOrder, lastDone, last,
                   subprocesses>>

\* await self.bot.close() releases the transport session.
CloseSession ==
    /\ state = "ShuttingDown"
    /\ session # "closed"
    /\ session' = "closed"
    /\ UNCHANGED <<state, processed_messages, stateFile, task, pendingShutdown, exitCode,
                   notifyCalls, recordOrder, lastSave, lastDone, last,
                   subprocesses>>

\* asyncio.run() on the way out cancels every task still pending; a handler
\* suspended in _send_notification gets CancelledError, which except Exception
\* does not catch, so it never reaches add / _save_state.
CancelAll ==
    [t \in Tasks |->
        IF task[t].pc = "spawn" THEN [task[t] EXCEPT !.pc = "cancelled_in_spawn"]
        ELSE IF task[t].pc = "communicate" THEN [task[t] EXCEPT !.pc = "cancelled_in_communicate"]
        ELSE task[t]]

\* bot.start() returns once the session is closed; run() returns and main()
\* falls off its end.
Exit ==
    /\ state = "ShuttingDown"
    /\ session = "closed"
    /\ state' = "Stopped"
    /\ exitCode' = 0
    /\ task' = CancelAll
    /\ pendingShutdown' = FALSE
    /\ UNCHANGED <<session, processed_messages, stateFile, notifyCalls, recordOrder,
                   lastSave, lastDone, last,
                   subprocesses>>

\* run() connecting again after bot.start() raised.
FatalErrorReconnects ==
    /\ state \in {"Connecting", "Connected"}
    /\ state' = "Connecting"
    /\ session' = "closed"
    /\ task' = CancelAll
    /\ pendingShutdown' = FALSE
    /\ UNCHANGED <<exitCode, processed_messages, stateFile, notifyCalls, recordOrder,
                   lastSave, lastDone, last, subprocesses>>

\* bot.start() raises (login rejected, connection lost for good): run() logs
\* and re-raises, main() logs and calls sys.exit(1).
FatalError ==
    /\ state \in {"Connecting", "Connected"}
    /\ state' = "Stopped"
    /\ session' = "closed"
    /\ exitCode' = 1
    /\ task' = CancelAll
    /\ pendingShutdown' = FALSE
    /\ UNCHANGED <<processed_messages, stateFile, notifyCalls, recordOrder, lastSave,
                   lastDone, last,
                   subprocesses>>

\* ---------------------------------------------------------------- specifications
Lifecycle ==
    \/ Start
    \/ Ready
    \/ Signal
    \/ Shutdown
    \/ CloseSession
    \/ Exit
    \/ FatalError

\* Deliveries are handled as tasks of one event loop: a new handler can start
\* whenever the loop is free, that is at any await of the others.
Next ==
    \/ Lifecycle
    \/ \E t \in Tasks : SpawnOk(t)
    \/ \E t \in Tasks : SpawnRaise(t)
    \/ \E t \in Tasks, r \in NotifyResults : Communicate(t, r)
    \/ \E m \in Messages : OnMessage(m)

Spec == Init /\ [][Next]_vars

\* The deliveries of a transport that hands over an event only when the
\* handling of the one before has finished.  This specification also keeps
\* the observers: last, the delivery handled latest, whether its id was in
\* the set when it arrived and what on_message decided; lastDone, the id and
\* the notify result of the handler that finished latest; subprocesses, the
\* count of notification processes that create_subprocess_exec started.
NoneInFlight == \A t \in Tasks : ~InFlight(t)

OnMessageInTurn(message) ==
    /\ NoneInFlight
    /\ Deliver(message)
    /\ last' = [message |-> message,
                seen |-> message.id \in processed_messages,
                type |-> NotificationType(message, processed_messages)]

SpawnOkObserved(t) ==
    /\ SpawnStarted(t)
    /\ subprocesses' = subprocesses + 1

SpawnRaiseObserved(t) ==
    /\ SpawnFailed(t)
    /\ lastDone' = [id |-> task[t].id, result |-> "raised"]

CommunicateObserved(t, result) ==
    /\ Communicated(t, result)
    /\ lastDone' = [id |-> task[t].id, result |-> result]

NextSeq ==
    \/ Lifecycle
    \/ \E t \in Tasks : SpawnOkObserved(t)
    \/ \E t \in Tasks : SpawnRaiseObserved(t)
    \/ \E t \in Tasks, r \in NotifyResults : CommunicateObserved(t, r)
    \/ \E m \in Messages : OnMessageInTurn(m)

SpecSeq == Init /\ [][NextSeq]_vars

\* ---------------------------------------------------------------- properties
Delivered == last.message.id \in Ids

Failed(result) == result \in {"nonzero", "raised"}

\* Handlers of id i that were started and have not finished.
Unfinished(i) == {t \in Tasks : task[t].pc # "idle" /\ task[t].id = i}

\* C1 (SpecSeq): when every delivery is handled before the next one starts,
\* _send_notification is called at most once per id, and a delivery that did
\* lead to a call was the first such call for its id: a delivery of an id
\* already notified is dropped.
C1_SequentialDuplicateIgnored ==
    /\ \A i \in Ids : notifyCalls[i] <= 1
    /\ (Delivered /\ last.type # "NONE") => notifyCalls[last.message.id] = 1

\* A worthy delivery of an id notified and recorded earlier in this lifetime
\* was dropped.
C1_Witness ==
    /\ Delivered
    /\ ~last.message.self /\ last.message.dm
    /\ last.seen /\ last.type = "NONE"
    /\ last.message.id \in Range(recordOrder)
    /\ notifyCalls[last.message.id] = 1

\* C2 (Spec): no two handlers are past the membership test for the same id at
\* once, and no id is notified twice.
C2_NoCheckThenActRace ==
    /\ \A t, u \in Tasks : (t # u /\ InFlight(t) /\ InFlight(u)) => task[t].id # task[u].id
    /\ \A i \in Ids : notifyCalls[i] < 2

\* C3 (Spec): once teardown on a signal has begun (ShuttingDown) or finished
\* (Stopped with status 0), no handler whose notification subprocess was
\* started is left with its id neither in the set nor in the state file.
NotifiedUnrecorded(t) ==
    /\ task[t].pc \in {"communicate", "cancelled_in_communicate"}
    /\ task[t].id \notin processed_messages
    /\ task[t].id \notin Range(stateFile.ids)

C3_TeardownAfterHandling ==
    (state = "ShuttingDown" \/ (state = "Stopped" /\ exitCode = 0))
        => \A t \in Tasks : ~NotifiedUnrecorded(t)

\* C4 (Spec): a state file that parses never holds more than the cap.
C4_PersistedBounded ==
    stateFile.kind = "ok" => Len(stateFile.ids) <= KeepLast

\* More ids than the cap are in the set and the latest save wrote the file.
C4_Witness ==
    /\ Cardinality(processed_messages) > KeepLast
    /\ Len(recordOrder) > 0
    /\ lastSave = "ok"
    /\ Len(stateFile.ids) = KeepLast

\* C5 (Spec): once more ids than the cap were recorded, a file the latest
\* save wrote holds exactly the most recently recorded ones.
C5_KeepsNewest ==
    (lastSave = "ok" /\ Len(recordOrder) > KeepLast)
        => Range(stateFile.ids) = Range(LastN(recordOrder, KeepLast))

\* C6 (Spec): the set in memory never holds more ids than the cap.
C6_InMemoryCapped ==
    Cardinality(processed_messages) <= KeepLast

\* C7 (Spec): an id added in this lifetime had _send_notification called for
\* it, and when more calls were made for an id than handlers of it are still
\* unfinished (so one ran to its end) the id is in the set.
C7_RecordIffAttempted ==
    /\ \A i \in Range(recordOrder) : notifyCalls[i] >= 1
    /\ \A i \in Ids :
        notifyCalls[i] > Cardinality(Unfinished(i)) => i \in processed_messages

\* A handler ran to its end and its id was added, while another handler, for
\* an id not yet in the set, is suspended.
C7_Witness ==
    /\ Len(recordOrder) > 0
    /\ \E t \in Tasks : InFlight(t) /\ task[t].id \notin processed_messages

C9_SelfAuthoredIgnored ==
    /\ []((Delivered /\ last.message.self) => last.type = "NONE")
    /\ [][(last' # last /\ last'.message.self)
            => UNCHANGED <<processed_messages, stateFile, task, notifyCalls,
                           recordOrder>>]_vars

\* A self-authored DM that mentions the watcher, with an id not seen before.
C9_Witness ==
    /\ Delivered
    /\ last.message.self /\ last.message.dm /\ last.message.mention
    /\ ~last.seen
    /\ last.type = "NONE"

\* The classifier as the ordered rule list; the first rule that matches
\* decides.
Rules(message, seen) ==
    << [when |-> message.self, class |-> "Ignored"],
       [when |-> seen, class |-> "Ignored"],
       [when |-> message.dm, class |-> "DirectMessage"],
       [when |-> message.mention, class |-> "Mention"],
       [when |-> TRUE, class |-> "Ignored"] >>

FirstMatch(rules) ==
    LET k == CHOOSE i \in 1..Len(rules) :
                 rules[i].when /\ \A j \in 1..(i - 1) : ~rules[j].when
    IN rules[k].class

Category(type) ==
    IF type = "DM" THEN "DirectMessage"
    ELSE IF type = "MENTION" THEN "Mention"
    ELSE "Ignored"

\* C10 (SpecSeq): what on_message decides is the first matching rule of the
\* list, and a delivery it finds worthy makes exactly one call of
\* _send_notification, for its own id.
C10_RuleOrder ==
    /\ [](Delivered => Category(last.type) = FirstMatch(Rules(last.message, last.seen)))
    /\ [][(last' # last /\ last'.type # "NONE")
            => notifyCalls' = [notifyCalls EXCEPT ![last'.message.id] = @ + 1]]_vars

\* A DM that also mentions the watcher went out as a DM, once.
C10_Witness ==
    /\ Delivered
    /\ ~last.message.self /\ ~last.seen
    /\ last.message.dm /\ last.message.mention
    /\ last.type = "DM"
    /\ notifyCalls[last.message.id] = 1

Worthy(message) == ~message.self /\ (message.dm \/ message.mention)

\* C11 (SpecSeq): handling a delivery that on_message drops starts no
\* notification and no handler task, and leaves the set in memory and the
\* state file as they were.
C11_IgnoredHasNoEffect ==
    [][(last' # last /\ last'.type = "NONE")
         => UNCHANGED <<processed_messages, stateFile, lastSave, task, notifyCalls,
                        recordOrder, subprocesses>>]_vars

\* A channel message that does not mention the watcher, with an id not seen
\* before, was dropped and its id is not in the set.
C11_Witness ==
    /\ Delivered
    /\ ~last.message.self /\ ~last.message.dm /\ ~last.message.mention
    /\ ~last.seen
    /\ last.type = "NONE"
    /\ last.message.id \notin processed_messages

\* C12 (Spec): the step that enters ShuttingDown runs _save_state (on the set
\* as it is) and leaves the session held; the session is released on a signal
\* only from ShuttingDown; the watcher is Stopped with status 0 only with the
\* flush done and the session released.
C12_FlushBeforeRelease ==
    /\ [][(state # "ShuttingDown" /\ state' = "ShuttingDown")
            => /\ lastSave' \in {"ok", "failed"}
               /\ lastSave' = "ok" => stateFile'.ids \in RecentMessages(processed_messages)
               /\ session' = session /\ session # "closed"]_vars
    /\ [][(session # "closed" /\ session' = "closed" /\ exitCode' # 1)
            => state = "ShuttingDown"]_vars
    /\ []((state = "Stopped" /\ exitCode = 0)
            => (session = "closed" /\ lastSave \in {"ok", "failed"}))

\* Stopped after a signal that found the watcher Connected with nothing yet
\* recorded: the file was written by the flush of shutdown() and the session
\* is released.
C12_Witness ==
    /\ state = "Stopped" /\ exitCode = 0
    /\ session = "closed"
    /\ \E t \in Tasks : task[t].pc = "cancelled_in_communicate"
    /\ recordOrder = <<>>
    /\ lastSave = "ok"

\* C13 (Spec): the lifecycle moves only along Disconnected, Connecting,
\* Connected, ShuttingDown, Stopped, or from Connecting / Connected to Stopped
\* on a transport error; Stopped is left no more; and a notification is
\* started or an id recorded only while Connected.
LifecycleEdges ==
    { <<"Disconnected", "Connecting">>, <<"Connecting", "Connected">>,
      <<"Connected", "ShuttingDown">>, <<"ShuttingDown", "Stopped">> }

ErrorEdges == { <<"Connecting", "Stopped">>, <<"Connected", "Stopped">> }

C13_LifecycleTransitions ==
    /\ [][state' # state
            => \/ <<state, state'>> \in LifecycleEdges
               \/ (<<state, state'>> \in ErrorEdges /\ exitCode' = 1)]_vars
    /\ [][(notifyCalls' # notifyCalls \/ processed_messages' # processed_messages)
            => (state = "Connected" /\ state' = "Connected")]_vars

\* C14 (SpecSeq): with a state file that does not parse, the constructor
\* ends with an empty set and the watcher ready to start; until the first
\* save every worthy delivery, whatever its id, is notified.
C14_CorruptStateTolerated ==
    /\ (stateFile.kind = "corrupt" /\ session = "none")
            => (state = "Disconnected" /\ exitCode = -1 /\ processed_messages = {}
                /\ ENABLED Start)
    /\ (stateFile.kind = "corrupt" /\ lastSave = "none")
            => /\ \A m \in Messages :
                    Worthy(m) => NotificationType(m, processed_messages) # "NONE"
               /\ (Delivered /\ Worthy(last.message)) => last.type # "NONE"

\* Started on a corrupt file, the watcher is Connected and the notification
\* of a mention is under way.
C14_Witness ==
    /\ stateFile.kind = "corrupt" /\ lastSave = "none"
    /\ state = "Connected"
    /\ Delivered /\ last.type = "MENTION"
    /\ \E t \in Tasks : task[t].pc = "communicate" /\ task[t].id = last.message.id

\* C15 (SpecSeq): the step that ends a handler with a failed write ends it
\* like any other (slot free, lifecycle unchanged) with the id in the set;
\* every id recorded in this lifetime stays in the set, and a delivery of it
\* is dropped, whatever became of the writes.
C15_WriteFailureSwallowed ==
    /\ [][(lastDone' # lastDone /\ lastSave' = "failed")
            => /\ lastDone'.id \in processed_messages'
               /\ \A t \in Tasks : task[t].pc # task'[t].pc => task'[t] = IdleTask
               /\ state' = state /\ exitCode' = exitCode]_vars
    /\ [](\A i \in Range(recordOrder) :
            /\ i \in processed_messages
            /\ \A m \in Messages : m.id = i => NotificationType(m, processed_messages) = "NONE")

\* The write for an id failed, the file does not hold it, and a later DM
\* with that id was dropped.
C15_Witness ==
    /\ lastSave = "failed"
    /\ lastDone.result = "ok"
    /\ lastDone.id \notin Range(stateFile.ids)
    /\ last.message.id = lastDone.id
    /\ last.message.dm /\ ~last.message.self
    /\ last.seen /\ last.type = "NONE"

\* C16 (Spec): whenever _save_state has just written a set of at most
\* KeepLast ids, _load_state of the file it left gives a set with the same
\* members.
C16_RoundTrip ==
    (lastSave = "ok" /\ Cardinality(processed_messages) <= KeepLast)
        => (stateFile.kind = "ok" /\ LoadState(stateFile) = processed_messages)

\* A handler recorded an id into an empty set and the write succeeded: the
\* set saved is as large as the slice allows.
C16_Witness ==
    /\ lastSave = "ok"
    /\ Len(recordOrder) > 0
    /\ Cardinality(processed_messages) = KeepLast
    /\ LoadState(stateFile) = processed_messages

\* C17 (Spec): bot.start() raising while Connecting or Connected ends in
\* Stopped with exit status 1; status 1 is only ever seen in Stopped;
\* Connecting is entered from Disconnected only, and Disconnected and the
\* states before Stopped are never entered again.
C17_FatalErrorStops ==
    /\ [][(state \in {"Connecting", "Connected"} /\ state' = "Stopped")
            => (exitCode' = 1 /\ session' = "closed")]_vars
    /\ [][(state' = "Connecting" /\ state # "Connecting") => state = "Disconnected"]_vars
    /\ [][state # "Disconnected" => state' # "Disconnected"]_vars
    /\ [][state = "Stopped" => (state' = "Stopped" /\ exitCode' = exitCode)]_vars
    /\ [](exitCode = 1 => state = "Stopped")

\* The session broke while a notification was being spawned: the watcher is
\* Stopped with status 1 and the handler was cancelled.
C17_Witness ==
    /\ state = "Stopped" /\ exitCode = 1
    /\ session = "closed"
    /\ \E t \in Tasks : task[t].pc = "cancelled_in_spawn"

\* C18 (SpecSeq): when a handler records an id and the write succeeds, the
\* file holds that id, so that _load_state of it would make a later delivery
\* of the id a duplicate, however many ids were recorded before.
C18_EveryMutationFlushed ==
    [][(lastDone' # lastDone /\ lastSave' = "ok")
         => /\ lastDone'.id \in LoadState(stateFile')
            /\ \A m \in Messages :
                 m.id = lastDone'.id => NotificationType(m, LoadState(stateFile')) = "NONE"]_vars

RECURSIVE SumCalls(_)
SumCalls(S) ==
    IF S = {} THEN 0
    ELSE LET i == CHOOSE x \in S : TRUE IN notifyCalls[i] + SumCalls(S \ {i})

Spawning == {t \in Tasks : task[t].pc = "spawn"}

\* C19 (SpecSeq): the subprocesses started, together with the calls of
\* _send_notification that have not yet reached create_subprocess_exec, never
\* outnumber the calls made; a call reaches create_subprocess_exec only from
\* its start, and a handler that finishes starts nothing.
C19_OneAttemptPerCall ==
    /\ [](subprocesses + Cardinality(Spawning) <= SumCalls(Ids))
    /\ [][subprocesses' \in {subprocesses, subprocesses + 1}]_vars
    /\ [][\A t \in Tasks :
            (task'[t].pc = "spawn" /\ task[t].pc # "spawn")
                => (task[t].pc = "idle" /\ SumCalls(Ids)' = SumCalls(Ids) + 1)]_vars
    /\ [][lastDone' # lastDone => subprocesses' = subprocesses]_vars

\* One subprocess was started for the one call made, it ended with a
\* non-zero return code, and nothing further was started.
C19_Witness ==
    /\ lastDone.result = "nonzero"
    /\ SumCalls(Ids) = 1
    /\ subprocesses = 1
    /\ \A t \in Tasks : task[t] = IdleTask

\* C20 (SpecSeq): no step takes an id out of processed_messages; the ids in a
\* readable state file are all in the set; and every id recorded in this
\* lifetime is classified NONE against the set from then on.
C20_MemoryOnlyGrows ==
    /\ [][processed_messages \subseteq processed_messages']_vars
    /\ [](stateFile.kind = "ok" => Range(stateFile.ids) \subseteq processed_messages)
    /\ [](\A m \in Messages :
            m.id \in Range(recordOrder) => NotificationType(m, processed_messages) = "NONE")
    /\ [][(last' # last /\ last'.message.id \in Range(recordOrder))
            => (last'.seen /\ last'.type = "NONE" /\ notifyCalls' = notifyCalls)]_vars

\* The set holds more ids than the slice keeps, the last write succeeded and
\* dropped an id, and a later mention with the dropped id was ignored.
C20_Witness ==
    /\ Cardinality(processed_messages) > KeepLast
    /\ lastSave = "ok"
    /\ Delivered
    /\ last.message.mention /\ ~last.message.dm /\ ~last.message.self
    /\ last.message.id \in Range(recordOrder)
    /\ last.message.id \notin Range(stateFile.ids)
    /\ last.seen /\ last.type = "NONE"

====
